---------------------------- MODULE Spec2Model ----------------------------
(***************************************************************************)
(* A model of the key-addressed adjacency-list graph of                    *)
(* src/graph/adjacency_list.rs: Graph<K, V, E> owns a HashMap from keys to *)
(* boxed nodes, a Node owns a value and a Vec of edges, an Edge holds a    *)
(* value (the weight) and the key of the node it points at.                *)
(*                                                                         *)
(* The HashMap is a function whose DOMAIN is the set of present keys, a    *)
(* Vec is a sequence, an Option is a sequence of length 0 (None) or 1      *)
(* (Some), and a panic is the flag `panicked`, after which nothing runs.   *)
(***************************************************************************)
EXTENDS Integers, Sequences, FiniteSets, TLC

(***************************************************************************)
(* Instantiation of the type parameters K, V and E: the keys, values and   *)
(* weights of examples/adjacency_list.rs.                                  *)
(***************************************************************************)
Keys == {"ryan", "ashley", "ben"}
Values == {71, 62}
Weights == {160, 40}

\* The variants of graph::EdgeType.
EdgeType == {"Directional", "Bidirectional"}

\* Bound of the model: the number of edges a graph holds, over all its nodes.
MaxEdges == 2

\* Instantiation of the item type T of LinkedList<T>: items of its tests.
Items == {1, 2, 12}

\* Bound of the model: the number of items a linked list holds.
MaxLen == 3

\* Instantiation of the item type T of BinaryTree<T>: 6 and 2 of its tests, and 8.
TreeItems == {2, 6, 8}

\* Bound of the model: the number of nodes a binary tree holds.
MaxTree == 3

VARIABLES
    nodes,       \* Graph.nodes: the key -> Node map
    panicked,    \* TRUE once an expect("has this key") has failed
    last,        \* the caller's view: the call that has just returned, with its
                 \* arguments and result, or "new" / "return" between two calls
    prev,        \* Graph.nodes as it was before that call
    registered,  \* history: the keys add_node has been called with
    log,         \* history: per key, the <<weight, target>> pairs of the edge
                 \* insertions that were made on it since it was last registered
    list,        \* the LinkedList the caller owns
    llast,       \* the list call that has just returned, with arguments and result
    lprev,       \* the list as it was before that call
    net,         \* history: the items put into the list minus the items taken out
    input,       \* the sequence x1..xn a list is built from, to be iterated
    todo,        \* the part of input that is not in the list yet
    via,         \* how the list was built: "push", "from_iter", or "none" so far
    ilist,       \* the list built from input
    ipc,         \* "build", then "by_ref" (an Iter is live), then "by_val"
    iter,        \* the Iter over references to ilist
    into_iter,   \* the IntoIter that ilist was moved into
    byref,       \* what the calls of Iter::next returned, in order
    byval,       \* what the calls of IntoIter::next returned, in order
    tree,        \* the BinaryTree the caller owns
    tlast,       \* the tree call that has just returned, with arguments and result
    tprev        \* the tree as it was before that call

gvars == <<nodes, panicked, last, prev, registered, log>>
lvars == <<list, llast, lprev, net>>
ivars == <<input, todo, via, ilist, ipc, iter, into_iter, byref, byval>>
tvars == <<tree, tlast, tprev>>
vars == <<gvars, lvars, ivars, tvars>>

\* What the calls on the graph, on the list, on the iterators and on the
\* tree leave alone.
NonGraph == <<lvars, ivars, tvars>>
NonList == <<gvars, ivars, tvars>>
NonIter == <<gvars, lvars, tvars>>
NonTree == <<gvars, lvars, ivars>>

---------------------------------------------------------------------------
(* Option<T> *)
None == <<>>
Some(x) == <<x>>

(* Edge::new *)
Edge_new(value, adjacency) == [value |-> value, adjacency |-> adjacency]

(* Node::new *)
Node_new(value) == [value |-> value, adjacencies |-> <<>>]

\* Mutant of add_adjacency: the edge is put in front instead of at the end.
add_adjacency_front(node, adjacency) ==
    [node EXCEPT !.adjacencies = <<adjacency>> \o @]

\* Mutant of add_adjacency: the edge is assigned instead of pushed.
add_adjacency_assign(node, adjacency) ==
    [node EXCEPT !.adjacencies = <<adjacency>>]

(* Node::add_adjacency *)
add_adjacency(node, adjacency) ==
    [node EXCEPT !.adjacencies = Append(@, adjacency)]

(* Node::edges *)
edges(node) == node.adjacencies

\* Mutant of Graph_new: the map starts with an entry.
Graph_new_seeded == [k \in {"ryan"} |-> Node_new(71)]

(* Graph::new *)
Graph_new == [k \in {} |-> Node_new(71)]

(* HashMap::contains_key, as add_edge and connect use it *)
contains_key(g, key) == key \in DOMAIN g

(* HashMap::insert, as add_node uses it *)
insert(g, key, node) ==
    [k \in DOMAIN g \cup {key} |-> IF k = key THEN node ELSE g[k]]

\* Mutant of add_node: an existing node keeps its edges, only the value changes.
add_node_merge(g, key, value) ==
    IF contains_key(g, key)
    THEN [g EXCEPT ![key].value = value]
    ELSE insert(g, key, Node_new(value))

\* Mutant of add_node: the node goes into a fresh map.
add_node_fresh_map(g, key, value) == insert(Graph_new, key, Node_new(value))

\* Mutant of add_node: the edges that point at the replaced key are dropped.
add_node_purging(g, key, value) ==
    LET keep(k) == SelectSeq(g[k].adjacencies, LAMBDA e : e.adjacency # key)
    IN  insert([k \in DOMAIN g |-> [g[k] EXCEPT !.adjacencies = keep(k)]],
               key, Node_new(value))

(* Graph::add_node *)
add_node(g, key, value) == insert(g, key, Node_new(value))

(* self.nodes.get_mut(&key).expect("has this key").add_adjacency(edge), on  *)
(* the outcome r = [nodes, panic] of the statements before it               *)
expect_add_adjacency(r, key, edge) ==
    IF r.panic THEN r
    ELSE IF contains_key(r.nodes, key)
         THEN [nodes |-> [r.nodes EXCEPT ![key] = add_adjacency(@, edge)],
               panic |-> FALSE]
         ELSE [nodes |-> r.nodes, panic |-> TRUE]

\* Mutant of add_edge: only the presence of b is tested.
add_edge_unchecked_a(g, a, b, value) ==
    IF contains_key(g, b)
    THEN expect_add_adjacency([nodes |-> g, panic |-> FALSE],
                              a, Edge_new(value, b))
    ELSE [nodes |-> g, panic |-> FALSE]

\* Mutant of add_edge: only the presence of a is tested.
add_edge_unchecked_b(g, a, b, value) ==
    IF contains_key(g, a)
    THEN expect_add_adjacency([nodes |-> g, panic |-> FALSE],
                              a, Edge_new(value, b))
    ELSE [nodes |-> g, panic |-> FALSE]

\* Mutant of add_edge: a already pointing at b, the edge is not added again.
add_edge_dedup(g, a, b, value) ==
    IF contains_key(g, a) /\ contains_key(g, b)
    THEN IF \E i \in 1..Len(g[a].adjacencies) : g[a].adjacencies[i].adjacency = b
         THEN [nodes |-> g, panic |-> FALSE]
         ELSE expect_add_adjacency([nodes |-> g, panic |-> FALSE],
                                   a, Edge_new(value, b))
    ELSE [nodes |-> g, panic |-> FALSE]

\* Mutant of add_edge: the edge is mirrored onto b.
add_edge_mirrored(g, a, b, value) ==
    IF contains_key(g, a) /\ contains_key(g, b)
    THEN expect_add_adjacency(
             expect_add_adjacency([nodes |-> g, panic |-> FALSE],
                                  a, Edge_new(value, b)),
             b, Edge_new(value, a))
    ELSE [nodes |-> g, panic |-> FALSE]

(* Graph::add_edge.  The signature has no EdgeType parameter and the body   *)
(* reads none: whatever policy the caller means, one edge a -> b is added.  *)
add_edge(g, a, b, value) ==
    IF contains_key(g, a) /\ contains_key(g, b)
    THEN expect_add_adjacency([nodes |-> g, panic |-> FALSE],
                              a, Edge_new(value, b))
    ELSE [nodes |-> g, panic |-> FALSE]

\* Mutant of connect: only the presence of a is tested.
connect_unchecked_b(g, a, b, value) ==
    IF contains_key(g, a)
    THEN expect_add_adjacency(
             expect_add_adjacency([nodes |-> g, panic |-> FALSE],
                                  a, Edge_new(value, b)),
             b, Edge_new(value, a))
    ELSE [nodes |-> g, panic |-> FALSE]

\* Mutant of connect: a self-loop is not mirrored.
connect_single_self_loop(g, a, b, value) ==
    IF contains_key(g, a) /\ contains_key(g, b)
    THEN IF a = b
         THEN expect_add_adjacency([nodes |-> g, panic |-> FALSE],
                                   a, Edge_new(value, b))
         ELSE expect_add_adjacency(
                  expect_add_adjacency([nodes |-> g, panic |-> FALSE],
                                       a, Edge_new(value, b)),
                  b, Edge_new(value, a))
    ELSE [nodes |-> g, panic |-> FALSE]

(* Graph::connect *)
connect(g, a, b, value) ==
    IF contains_key(g, a) /\ contains_key(g, b)
    THEN expect_add_adjacency(
             expect_add_adjacency([nodes |-> g, panic |-> FALSE],
                                  a, Edge_new(value, b)),
             b, Edge_new(value, a))
    ELSE [nodes |-> g, panic |-> FALSE]

(* Graph::get *)
get(g, key) == IF key \in DOMAIN g THEN Some(g[key]) ELSE None

---------------------------------------------------------------------------
(***************************************************************************)
(* The persistent singly linked list of src/list/linked_list.rs (and its   *)
(* copy src/list.rs): LinkedList<T> is Cons(T, Box<LinkedList<T>>) or Nil. *)
(* Every operation takes the list by value and returns the new one.        *)
(***************************************************************************)
(* LinkedList::Nil *)
Nil == [tag |-> "Nil"]

(* LinkedList::Cons *)
Cons(item, rest) == [tag |-> "Cons", item |-> item, rest |-> rest]

(* Result<T, E>, MoveResult<T, U> *)
Ok(val) == [ok |-> TRUE, val |-> val]
Err(val) == [ok |-> FALSE, val |-> val]

(* LinkedList::new *)
LinkedList_new == Nil

(* LinkedList::is_empty *)
LinkedList_is_empty(self) == IF self.tag = "Cons" THEN FALSE ELSE TRUE

\* Mutant of push: the item is put behind the last item.
RECURSIVE LinkedList_push_back(_, _)
LinkedList_push_back(self, item) ==
    IF self.tag = "Cons"
    THEN Cons(self.item, LinkedList_push_back(self.rest, item))
    ELSE Cons(item, Nil)

(* LinkedList::push *)
LinkedList_push(self, item) == Cons(item, self)

(* LinkedList::pop *)
LinkedList_pop(self) ==
    IF self.tag = "Cons" THEN Some(<<self.item, self.rest>>) ELSE None

\* Mutant of insert: past the end, only the rest is handed back.
RECURSIVE LinkedList_insert_err_rest(_, _, _)
LinkedList_insert_err_rest(self, index, item) ==
    IF index = 0
    THEN Ok(LinkedList_push(self, item))
    ELSE IF self.tag = "Cons"
         THEN LET r == LinkedList_insert_err_rest(self.rest, index - 1, item)
              IN  IF r.ok THEN Ok(Cons(self.item, r.val)) ELSE Err(r.val)
         ELSE Err(self)

\* Mutant of insert: the item goes in one place too late.
RECURSIVE LinkedList_insert_after(_, _, _)
LinkedList_insert_after(self, index, item) ==
    IF self.tag = "Cons"
    THEN IF index = 0
         THEN Ok(Cons(self.item, LinkedList_push(self.rest, item)))
         ELSE LET r == LinkedList_insert_after(self.rest, index - 1, item)
              IN  IF r.ok THEN Ok(Cons(self.item, r.val))
                          ELSE Err(Cons(self.item, r.val))
    ELSE IF index = 0 THEN Ok(LinkedList_push(self, item)) ELSE Err(self)

(* LinkedList::insert *)
RECURSIVE LinkedList_insert(_, _, _)
LinkedList_insert(self, index, item) ==
    IF index = 0
    THEN Ok(LinkedList_push(self, item))
    ELSE IF self.tag = "Cons"
         THEN LET r == LinkedList_insert(self.rest, index - 1, item)
              IN  IF r.ok THEN Ok(Cons(self.item, r.val))
                          ELSE Err(Cons(self.item, r.val))
         ELSE Err(self)

\* Mutant of remove: past the end, only the rest is handed back.
RECURSIVE LinkedList_remove_err_rest(_, _)
LinkedList_remove_err_rest(self, index) ==
    IF self.tag = "Cons"
    THEN IF index = 0
         THEN Ok(<<self.item, self.rest>>)
         ELSE LET r == LinkedList_remove_err_rest(self.rest, index - 1)
              IN  IF r.ok THEN Ok(<<r.val[1], Cons(self.item, r.val[2])>>)
                          ELSE Err(r.val)
    ELSE Err(self)

\* Mutant of remove: the items in front of the removed one are not put back.
RECURSIVE LinkedList_remove_drop_front(_, _)
LinkedList_remove_drop_front(self, index) ==
    IF self.tag = "Cons"
    THEN IF index = 0
         THEN Ok(<<self.item, self.rest>>)
         ELSE LET r == LinkedList_remove_drop_front(self.rest, index - 1)
              IN  IF r.ok THEN Ok(<<r.val[1], r.val[2]>>)
                          ELSE Err(Cons(self.item, r.val))
    ELSE Err(self)

(* LinkedList::remove *)
RECURSIVE LinkedList_remove(_, _)
LinkedList_remove(self, index) ==
    IF self.tag = "Cons"
    THEN IF index = 0
         THEN Ok(<<self.item, self.rest>>)
         ELSE LET r == LinkedList_remove(self.rest, index - 1)
              IN  IF r.ok THEN Ok(<<r.val[1], Cons(self.item, r.val[2])>>)
                          ELSE Err(Cons(self.item, r.val))
    ELSE Err(self)

(* <&LinkedList as IntoIterator>::into_iter: an Iter over references *)
Iter_new(self) == [current |-> self]

(* <Iter as Iterator>::next: the item, and the iterator after the call *)
Iter_next(self) ==
    IF self.current.tag = "Cons"
    THEN [item |-> Some(self.current.item), iter |-> [current |-> self.current.rest]]
    ELSE [item |-> None, iter |-> self]

(* Iterator::count on an Iter: next is called until it returns None *)
RECURSIVE Iter_count(_)
Iter_count(self) ==
    LET r == Iter_next(self)
    IN  IF r.item = None THEN 0 ELSE 1 + Iter_count(r.iter)

(* LinkedList::len *)
LinkedList_len(self) == Iter_count(Iter_new(self))

(* Iterator::fold(init, LinkedList::push) over the items of a sequence *)
RECURSIVE fold_push(_, _)
fold_push(init, iterable) ==
    IF iterable = <<>> THEN init
    ELSE fold_push(LinkedList_push(init, Head(iterable)), Tail(iterable))

(* <LinkedList as FromIterator>::from_iter *)
LinkedList_from_iter(iterable) == fold_push(LinkedList_new, iterable)

(* <LinkedList as IntoIterator>::into_iter: an IntoIter that owns the list *)
IntoIter_new(self) == [current |-> self]

\* Mutant of IntoIter::next: the rest of the list is not put back.
IntoIter_next_no_rest(self) ==
    LET current == self.current
        popped == LinkedList_pop(current)
    IN  IF popped = None
        THEN [item |-> None, iter |-> [current |-> Nil]]
        ELSE [item |-> Some(popped[1][1]), iter |-> [current |-> Nil]]

(* <IntoIter as Iterator>::next: mem::replace leaves Nil in self.current,  *)
(* the closure of map puts the rest back when pop found an item            *)
IntoIter_next(self) ==
    LET current == self.current
        popped == LinkedList_pop(current)
    IN  IF popped = None
        THEN [item |-> None, iter |-> [current |-> Nil]]
        ELSE [item |-> Some(popped[1][1]), iter |-> [current |-> popped[1][2]]]

---------------------------------------------------------------------------
(***************************************************************************)
(* The binary search tree of src/binary_tree.rs: BinaryTree<T> is          *)
(* Node(T, Box<BinaryTree<T>>, Box<BinaryTree<T>>) or Leaf.                *)
(***************************************************************************)
(* BinaryTree::Leaf *)
Leaf == [tag |-> "Leaf"]

(* BinaryTree::Node *)
TreeNode(item, left, right) ==
    [tag |-> "Node", item |-> item, left |-> left, right |-> right]

(* BinaryTree::new *)
BinaryTree_new == Leaf

(* BinaryTree::push *)
RECURSIVE BinaryTree_push(_, _)
BinaryTree_push(self, item) ==
    IF self.tag = "Node"
    THEN IF item > self.item
         THEN TreeNode(self.item, self.left, BinaryTree_push(self.right, item))
         ELSE TreeNode(self.item, BinaryTree_push(self.left, item), self.right)
    ELSE TreeNode(item, self, Leaf)

(* <BinaryTree as Add>::add: _rhs is not used *)
BinaryTree_add(self, rhs) == self

(* BinaryTree::remove; maybe! returns None from the function on None *)
RECURSIVE BinaryTree_remove(_, _)
BinaryTree_remove(self, item) ==
    IF self.tag = "Node"
    THEN IF item = self.item
         THEN Some(<<self.item, BinaryTree_add(self.left, self.right)>>)
         ELSE IF item > self.item
              THEN LET r == BinaryTree_remove(self.right, item)
                   IN  IF r = None THEN None
                       ELSE Some(<<r[1][1], TreeNode(self.item, self.left, r[1][2])>>)
              ELSE LET r == BinaryTree_remove(self.left, item)
                   IN  IF r = None THEN None
                       ELSE Some(<<r[1][1], TreeNode(self.item, r[1][2], self.right)>>)
    ELSE None

---------------------------------------------------------------------------
RECURSIVE SumEdges(_, _)
SumEdges(g, S) ==
    IF S = {} THEN 0
    ELSE LET k == CHOOSE x \in S : TRUE
         IN  Len(g[k].adjacencies) + SumEdges(g, S \ {k})

\* The number of edges of the graph g.
TotalEdges(g) == SumEdges(g, DOMAIN g)

\* The caller holds no result of the graph and is free to make a call.
Ready == ~panicked /\ last.op \in {"new", "return"}

(* let list = LinkedList::new() *)
ListInit ==
    /\ list = LinkedList_new
    /\ llast = [op |-> "new"]
    /\ lprev = LinkedList_new
    /\ net = 0

\* No list has been built for iteration: the input is empty.
IterIdle ==
    /\ input = <<>>
    /\ todo = <<>>
    /\ via = "none"
    /\ ilist = LinkedList_new
    /\ ipc = "build"
    /\ iter = Iter_new(LinkedList_new)
    /\ into_iter = IntoIter_new(LinkedList_new)
    /\ byref = <<>>
    /\ byval = <<>>

(* let tree = BinaryTree::new() *)
TreeInit ==
    /\ tree = BinaryTree_new
    /\ tlast = [op |-> "new"]
    /\ tprev = BinaryTree_new

Init ==
    /\ nodes = Graph_new
    /\ panicked = FALSE
    /\ last = [op |-> "new"]
    /\ prev = Graph_new
    /\ registered = {}
    /\ log = [k \in Keys |-> <<>>]
    /\ ListInit
    /\ IterIdle
    /\ TreeInit

(* graph.add_node(key, value) *)
AddNode(key, value) ==
    /\ Ready
    /\ nodes' = add_node(nodes, key, value)
    /\ prev' = nodes
    /\ last' = [op |-> "add_node", key |-> key, value |-> value]
    /\ registered' = registered \cup {key}
    /\ log' = [log EXCEPT ![key] = <<>>]
    /\ UNCHANGED panicked
    /\ UNCHANGED NonGraph

(* graph.add_edge(a, b, value), the caller meaning the policy edge_type *)
AddEdge(a, b, value, edge_type) ==
    LET r == add_edge(nodes, a, b, value) IN
    /\ Ready
    /\ TotalEdges(r.nodes) <= MaxEdges
    /\ nodes' = r.nodes
    /\ panicked' = r.panic
    /\ prev' = nodes
    /\ last' = [op |-> "add_edge", a |-> a, b |-> b, value |-> value,
                edge_type |-> edge_type]
    /\ log' = IF a \in DOMAIN nodes /\ b \in DOMAIN nodes
              THEN [log EXCEPT ![a] = Append(@, <<value, b>>)]
              ELSE log
    /\ UNCHANGED registered
    /\ UNCHANGED NonGraph

(* graph.connect(a, b, value) *)
Connect(a, b, value) ==
    LET r == connect(nodes, a, b, value) IN
    /\ Ready
    /\ TotalEdges(r.nodes) <= MaxEdges
    /\ nodes' = r.nodes
    /\ panicked' = r.panic
    /\ prev' = nodes
    /\ last' = [op |-> "connect", a |-> a, b |-> b, value |-> value]
    /\ log' = IF a \in DOMAIN nodes /\ b \in DOMAIN nodes
              THEN [log EXCEPT ![a] = Append(@, <<value, b>>),
                               ![b] = Append(@, <<value, a>>)]
              ELSE log
    /\ UNCHANGED registered
    /\ UNCHANGED NonGraph

(* graph.get(&key): takes &self, the graph is only read *)
Get(key) ==
    /\ Ready
    /\ last' = [op |-> "get", key |-> key, result |-> get(nodes, key)]
    /\ prev' = nodes
    /\ UNCHANGED <<nodes, panicked, registered, log>>
    /\ UNCHANGED NonGraph

(* graph.get(&key).unwrap().edges(): takes &self, the node is only read *)
Edges(key) ==
    /\ Ready
    /\ get(nodes, key) # None
    /\ last' = [op |-> "edges", key |-> key,
                result |-> edges(get(nodes, key)[1])]
    /\ prev' = nodes
    /\ UNCHANGED <<nodes, panicked, registered, log>>
    /\ UNCHANGED NonGraph

(* The caller is done with the result of the call: the borrow that get and *)
(* edges hand out ends, which a later &mut self call requires.             *)
Return ==
    /\ ~panicked
    /\ last.op \notin {"new", "return"}
    /\ last' = [op |-> "return"]
    /\ prev' = nodes
    /\ UNCHANGED <<nodes, panicked, registered, log>>
    /\ UNCHANGED NonGraph

Next ==
    \/ \E key \in Keys, value \in Values : AddNode(key, value)
    \/ \E a \in Keys, b \in Keys, value \in Weights, edge_type \in EdgeType :
           AddEdge(a, b, value, edge_type)
    \/ \E a \in Keys, b \in Keys, value \in Weights : Connect(a, b, value)
    \/ \E key \in Keys : Get(key)
    \/ \E key \in Keys : Edges(key)
    \/ Return

Spec == Init /\ [][Next]_vars

---------------------------------------------------------------------------
(* The caller of the list: it owns one list, hands it to an operation and  *)
(* goes on with the list the operation gives back.                         *)

\* The items of the list l, the front first.
RECURSIVE Elems(_)
Elems(l) == IF l.tag = "Cons" THEN <<l.item>> \o Elems(l.rest) ELSE <<>>

\* The indices the caller passes: those of a full list and two past its end.
Indices == 0..(MaxLen + 1)

ListReady == llast.op \in {"new", "return"}

GraphIdle ==
    /\ nodes = Graph_new
    /\ panicked = FALSE
    /\ last = [op |-> "new"]
    /\ prev = Graph_new
    /\ registered = {}
    /\ log = [k \in Keys |-> <<>>]

(* list = list.push(item) *)
ListPush(item) ==
    /\ ListReady
    /\ Len(Elems(list)) < MaxLen
    /\ list' = LinkedList_push(list, item)
    /\ llast' = [op |-> "push", item |-> item]
    /\ lprev' = list
    /\ net' = net + 1
    /\ UNCHANGED NonList

(* match list.pop(): Some((item, rest)) => list = rest; None => a new list *)
ListPop ==
    LET r == LinkedList_pop(list) IN
    /\ ListReady
    /\ list' = IF r = None THEN LinkedList_new ELSE r[1][2]
    /\ llast' = [op |-> "pop", result |-> r]
    /\ lprev' = list
    /\ net' = IF r = None THEN net ELSE net - 1
    /\ UNCHANGED NonList

(* match list.insert(index, item): Ok(l) => list = l; Err(l) => list = l *)
ListInsert(index, item) ==
    LET r == LinkedList_insert(list, index, item) IN
    /\ ListReady
    /\ Len(Elems(r.val)) <= MaxLen
    /\ list' = r.val
    /\ llast' = [op |-> "insert", index |-> index, item |-> item, result |-> r]
    /\ lprev' = list
    /\ net' = IF r.ok THEN net + 1 ELSE net
    /\ UNCHANGED NonList

(* match list.remove(index): Ok((_, l)) => list = l; Err(l) => list = l *)
ListRemove(index) ==
    LET r == LinkedList_remove(list, index) IN
    /\ ListReady
    /\ list' = IF r.ok THEN r.val[2] ELSE r.val
    /\ llast' = [op |-> "remove", index |-> index, result |-> r]
    /\ lprev' = list
    /\ net' = IF r.ok THEN net - 1 ELSE net
    /\ UNCHANGED NonList

(* list.len(): takes &self *)
ListLen ==
    /\ ListReady
    /\ llast' = [op |-> "len", result |-> LinkedList_len(list)]
    /\ lprev' = list
    /\ UNCHANGED <<list, net>>
    /\ UNCHANGED NonList

(* list.is_empty(): takes &self *)
ListIsEmpty ==
    /\ ListReady
    /\ llast' = [op |-> "is_empty", result |-> LinkedList_is_empty(list)]
    /\ lprev' = list
    /\ UNCHANGED <<list, net>>
    /\ UNCHANGED NonList

(* The caller is done with the result of the call. *)
ListReturn ==
    /\ llast.op \notin {"new", "return"}
    /\ llast' = [op |-> "return"]
    /\ lprev' = list
    /\ UNCHANGED <<list, net>>
    /\ UNCHANGED NonList

ListNext ==
    \/ \E item \in Items : ListPush(item)
    \/ ListPop
    \/ \E index \in Indices, item \in Items : ListInsert(index, item)
    \/ \E index \in Indices : ListRemove(index)
    \/ ListLen
    \/ ListIsEmpty
    \/ ListReturn

InitList ==
    /\ GraphIdle
    /\ ListInit
    /\ IterIdle
    /\ TreeInit

SpecList == InitList /\ [][ListNext]_vars

---------------------------------------------------------------------------
(* Iteration: a list is built from the sequence `input`, by pushes or by   *)
(* from_iter, then iterated by reference (for x in &list) and at last by   *)
(* value (for x in list).  Every call of next is a step.                   *)

\* The sequences of at most n items.
SeqsUpTo(n) == UNION {[1..k -> Items] : k \in 0..n}

IterInit ==
    /\ input \in SeqsUpTo(MaxLen)
    /\ todo = input
    /\ via = "none"
    /\ ilist = LinkedList_new
    /\ ipc = "build"
    /\ iter = Iter_new(LinkedList_new)
    /\ into_iter = IntoIter_new(LinkedList_new)
    /\ byref = <<>>
    /\ byval = <<>>

(* ilist = ilist.push(x), for the next x of the input *)
IterPush ==
    /\ ipc = "build"
    /\ via \in {"none", "push"}
    /\ todo # <<>>
    /\ ilist' = LinkedList_push(ilist, Head(todo))
    /\ todo' = Tail(todo)
    /\ via' = "push"
    /\ UNCHANGED <<input, ipc, iter, into_iter, byref, byval>>
    /\ UNCHANGED NonIter

(* ilist = LinkedList::from_iter(input) *)
IterFromIter ==
    /\ ipc = "build"
    /\ via = "none"
    /\ ilist' = LinkedList_from_iter(input)
    /\ todo' = <<>>
    /\ via' = "from_iter"
    /\ UNCHANGED <<input, ipc, iter, into_iter, byref, byval>>
    /\ UNCHANGED NonIter

(* (&ilist).into_iter() *)
IterBorrow ==
    /\ ipc = "build"
    /\ todo = <<>>
    /\ ipc' = "by_ref"
    /\ iter' = Iter_new(ilist)
    /\ UNCHANGED <<input, todo, via, ilist, into_iter, byref, byval>>
    /\ UNCHANGED NonIter

(* iter.next(); it may be called again after it has returned None *)
IterNext ==
    LET r == Iter_next(iter) IN
    /\ ipc = "by_ref"
    /\ Len(byref) <= Len(input) + 1
    /\ iter' = r.iter
    /\ byref' = Append(byref, r.item)
    /\ UNCHANGED <<input, todo, via, ilist, ipc, into_iter, byval>>
    /\ UNCHANGED NonIter

(* ilist.into_iter(): the Iter is dropped and the list moves into the      *)
(* IntoIter; ilist is not read again                                       *)
IterMove ==
    /\ ipc = "by_ref"
    /\ ipc' = "by_val"
    /\ into_iter' = IntoIter_new(ilist)
    /\ UNCHANGED <<input, todo, via, ilist, iter, byref, byval>>
    /\ UNCHANGED NonIter

(* into_iter.next(); it may be called again after it has returned None *)
IntoIterNext ==
    LET r == IntoIter_next(into_iter) IN
    /\ ipc = "by_val"
    /\ Len(byval) <= Len(input) + 1
    /\ into_iter' = r.iter
    /\ byval' = Append(byval, r.item)
    /\ UNCHANGED <<input, todo, via, ilist, ipc, iter, byref>>
    /\ UNCHANGED NonIter

IterNextStep ==
    \/ IterPush
    \/ IterFromIter
    \/ IterBorrow
    \/ IterNext
    \/ IterMove
    \/ IntoIterNext

InitIter ==
    /\ GraphIdle
    /\ ListInit
    /\ IterInit
    /\ TreeInit

SpecIter == InitIter /\ [][IterNextStep]_vars

---------------------------------------------------------------------------
(* The caller of the tree: it owns one tree, hands it to push or remove    *)
(* and goes on with the tree the operation gives back.                     *)

\* How many times the item x is stored in the tree t.
RECURSIVE Count(_, _)
Count(t, x) ==
    IF t.tag = "Node"
    THEN (IF t.item = x THEN 1 ELSE 0) + Count(t.left, x) + Count(t.right, x)
    ELSE 0

\* The number of nodes of the tree t.
RECURSIVE Size(_)
Size(t) == IF t.tag = "Node" THEN 1 + Size(t.left) + Size(t.right) ELSE 0

TreeReady == tlast.op \in {"new", "return"}

(* tree = tree.push(item) *)
TreePush(item) ==
    /\ TreeReady
    /\ Size(tree) < MaxTree
    /\ tree' = BinaryTree_push(tree, item)
    /\ tlast' = [op |-> "push", item |-> item]
    /\ tprev' = tree
    /\ UNCHANGED NonTree

(* match tree.remove(item): Some((_, t)) => tree = t; None => a new tree *)
TreeRemove(item) ==
    LET r == BinaryTree_remove(tree, item) IN
    /\ TreeReady
    /\ tree' = IF r = None THEN BinaryTree_new ELSE r[1][2]
    /\ tlast' = [op |-> "remove", item |-> item, result |-> r]
    /\ tprev' = tree
    /\ UNCHANGED NonTree

(* The caller is done with the result of the call. *)
TreeReturn ==
    /\ tlast.op \notin {"new", "return"}
    /\ tlast' = [op |-> "return"]
    /\ tprev' = tree
    /\ UNCHANGED tree
    /\ UNCHANGED NonTree

TreeNext ==
    \/ \E item \in TreeItems : TreePush(item)
    \/ \E item \in TreeItems : TreeRemove(item)
    \/ TreeReturn

InitTree ==
    /\ GraphIdle
    /\ ListInit
    /\ IterIdle
    /\ TreeInit

SpecTree == InitTree /\ [][TreeNext]_vars


---------------------------------------------------------------------------
(* Vocabulary of the properties.  They are read in the states a call has   *)
(* just returned into: `last` is the call, `prev` the graph before it and  *)
(* `nodes` the graph after it.                                             *)

IsPrefix(s, t) == Len(s) <= Len(t) /\ SubSeq(t, 1, Len(s)) = s

\* Both endpoints of the last add_edge / connect call were present keys.
BothPresent == last.a \in DOMAIN prev /\ last.b \in DOMAIN prev

\* The call has appended at least one edge to k's sequence, e among them.
AppendedTo(k, e) ==
    /\ k \in DOMAIN nodes
    /\ IsPrefix(prev[k].adjacencies, nodes[k].adjacencies)
    /\ \E i \in (Len(prev[k].adjacencies) + 1)..Len(nodes[k].adjacencies) :
           nodes[k].adjacencies[i] = e

\* The edges the insertions logged for k create, in the order of the calls.
EdgesOfLog(k) ==
    [i \in 1..Len(log[k]) |-> [value |-> log[k][i][1], adjacency |-> log[k][i][2]]]

(* C1: add_edge / connect with an absent endpoint leaves the whole graph   *)
(* as it was and does not panic; in particular connect with a present and  *)
(* b absent appends no half edge a -> b.                                   *)
C1_MissingEndpointNoOp ==
    (last.op \in {"add_edge", "connect"} /\ ~BothPresent)
        => (nodes = prev /\ ~panicked)

C1_Witness ==
    /\ last.op = "connect"
    /\ last.a \in DOMAIN prev
    /\ last.b \notin DOMAIN prev

(* C2: add_node on a key leaves that key with the new value and an empty   *)
(* edge sequence, whatever value and edges the key had before.             *)
C2_AddNodeOverwrites ==
    last.op = "add_node"
        => get(nodes, last.key) = Some([value |-> last.value, adjacencies |-> <<>>])

C2_Witness ==
    /\ last.op = "add_node"
    /\ last.key \in DOMAIN prev
    /\ prev[last.key].value # last.value
    /\ prev[last.key].adjacencies # <<>>

(* C3, as claimed: whatever the operation, every key's edge sequence       *)
(* before it is a prefix of its edge sequence after it.                    *)
C3_EdgesOnlyGrow ==
    \A k \in DOMAIN prev :
        k \in DOMAIN nodes /\ IsPrefix(prev[k].adjacencies, nodes[k].adjacencies)

(* C3, amended: every operation other than add_node(k, _) leaves k's edge  *)
(* sequence before it a prefix of k's edge sequence after it; add_node(k,  *)
(* _) leaves k with the empty edge sequence.                               *)
C3_EdgesOnlyGrowUnlessReplaced ==
    \A k \in DOMAIN prev :
        /\ k \in DOMAIN nodes
        /\ IF last.op = "add_node" /\ last.key = k
           THEN nodes[k].adjacencies = <<>>
           ELSE IsPrefix(prev[k].adjacencies, nodes[k].adjacencies)

C3_Witness ==
    /\ last.op \in {"add_edge", "connect"}
    /\ BothPresent
    /\ prev[last.a].adjacencies # <<>>
    /\ Len(nodes[last.a].adjacencies) > Len(prev[last.a].adjacencies)

(* C4: add_edge(a, b, w, Directional) with both keys present appends the   *)
(* one edge {w, b} at the end of a's edge sequence and changes nothing     *)
(* else: not b, not any other node, not the key set.                       *)
C4_DirectionalAppendsOne ==
    (last.op = "add_edge" /\ last.edge_type = "Directional" /\ BothPresent)
        => /\ ~panicked
           /\ DOMAIN nodes = DOMAIN prev
           /\ nodes[last.a].value = prev[last.a].value
           /\ nodes[last.a].adjacencies =
                  Append(prev[last.a].adjacencies,
                         [value |-> last.value, adjacency |-> last.b])
           /\ \A k \in DOMAIN prev \ {last.a} : nodes[k] = prev[k]

C4_Witness ==
    /\ last.op = "add_edge"
    /\ last.edge_type = "Directional"
    /\ DOMAIN prev = Keys
    /\ last.a # last.b
    /\ prev[last.a].adjacencies # <<>>

(* C5: add_edge(a, b, w, Bidirectional) with both keys present appends the *)
(* edge {w, b} to a's edge sequence and the edge {w, a} to b's.            *)
C5_BidirectionalAddEdgeMirrors ==
    (last.op = "add_edge" /\ last.edge_type = "Bidirectional" /\ BothPresent)
        => /\ AppendedTo(last.a, [value |-> last.value, adjacency |-> last.b])
           /\ AppendedTo(last.b, [value |-> last.value, adjacency |-> last.a])

(* C6: connect(a, b, w) leaves the graph in the state that add_edge(a, b,  *)
(* w, Bidirectional) produces from the same starting graph.                *)
C6_ConnectIsBidirectionalAddEdge ==
    last.op = "connect"
        => /\ nodes = add_edge(prev, last.a, last.b, last.value).nodes
           /\ panicked = add_edge(prev, last.a, last.b, last.value).panic

(* C7: a node's edges are listed in the order of the add_edge / connect    *)
(* calls that created them since the node was last registered, and that is *)
(* what edges(get(k)) returns.                                             *)
C7_EdgeOrderIsInsertionOrder ==
    /\ \A k \in DOMAIN nodes : edges(nodes[k]) = EdgesOfLog(k)
    /\ last.op = "edges" => last.result = EdgesOfLog(last.key)

C7_Witness ==
    /\ last.op = "edges"
    /\ Len(last.result) >= 2
    /\ last.result[1] # last.result[2]

(* C8: after new() and add_node(k, v), get(k) is a node with value v and   *)
(* no edges, and get of every other key is absent.                         *)
C8_AddNodeOnEmptyGraph ==
    (last.op = "add_node" /\ prev = Graph_new)
        => /\ get(nodes, last.key) = Some([value |-> last.value, adjacencies |-> <<>>])
           /\ \A k \in Keys \ {last.key} : get(nodes, k) = None

C8_Witness ==
    /\ last.op = "add_node"
    /\ DOMAIN prev = {}
    /\ DOMAIN nodes = {last.key}

(* C9: get(k) is absent exactly when add_node(k, _) was never called, and  *)
(* otherwise it is the node stored at k; a get call returns that, changes  *)
(* nothing and does not panic.                                             *)
C9_GetIsOptional ==
    /\ \A k \in Keys :
           IF k \in registered
           THEN k \in DOMAIN nodes /\ get(nodes, k) = Some(nodes[k])
           ELSE get(nodes, k) = None
    /\ last.op = "get"
           => /\ nodes = prev
              /\ ~panicked
              /\ last.result = get(nodes, last.key)

C9_Witness ==
    /\ last.op = "get"
    /\ last.result = None
    /\ registered # {}

(* C10, as claimed: an edge of any node x that points at k is still in x's *)
(* sequence, at its position and unchanged, after add_node(k, v2), and     *)
(* get(k) then is the new node with value v2.                              *)
C10_EdgesToReplacedNodeSurvive ==
    last.op = "add_node"
        => \A x \in DOMAIN prev :
               \A i \in 1..Len(prev[x].adjacencies) :
                   prev[x].adjacencies[i].adjacency = last.key
                       => /\ x \in DOMAIN nodes
                          /\ i <= Len(nodes[x].adjacencies)
                          /\ nodes[x].adjacencies[i] = prev[x].adjacencies[i]
                          /\ get(nodes, last.key) # None
                          /\ get(nodes, last.key)[1].value = last.value

(* C10, amended: the same for the edges of every node x other than k; the  *)
(* edges of k itself, its self-loops among them, are discarded.            *)
C10_EdgesOfOthersToReplacedNodeSurvive ==
    last.op = "add_node"
        => \A x \in DOMAIN prev \ {last.key} :
               \A i \in 1..Len(prev[x].adjacencies) :
                   prev[x].adjacencies[i].adjacency = last.key
                       => /\ x \in DOMAIN nodes
                          /\ i <= Len(nodes[x].adjacencies)
                          /\ nodes[x].adjacencies[i] = prev[x].adjacencies[i]
                          /\ get(nodes, last.key) # None
                          /\ get(nodes, last.key)[1].value = last.value

C10_Witness ==
    /\ last.op = "add_node"
    /\ last.key \in DOMAIN prev
    /\ prev[last.key].value # last.value
    /\ \E x \in DOMAIN prev \ {last.key} :
           \E i \in 1..Len(prev[x].adjacencies) :
               prev[x].adjacencies[i].adjacency = last.key

\* The edges of the sequence adj that point at the key b, in their order.
EdgesTo(adj, b) == SelectSeq(adj, LAMBDA e : e.adjacency = b)

(* C11: no call panics: whatever the keys, values and weights of the calls *)
(* made so far, no expect("has this key") has failed, and the call that    *)
(* has just returned did not fail one either.                              *)
C11_NoPanic ==
    /\ ~panicked
    /\ last.op \in {"add_edge", "connect"}
           => /\ ~add_edge(prev, last.a, last.b, last.value).panic
              /\ ~connect(prev, last.a, last.b, last.value).panic

C11_Witness ==
    /\ last.op = "connect"
    /\ BothPresent
    /\ last.a # last.b
    /\ DOMAIN prev # Keys
    /\ ~panicked

(* C12: an add_edge(a, b, w) on present keys adds its own edge {w, b} at   *)
(* the end of a's sequence even when a already has edges to b, of the same *)
(* or of another weight: the edges to b are one more, the earlier ones     *)
(* keep their weights and their order.                                     *)
C12_NoEdgeDeduplication ==
    (last.op = "add_edge" /\ BothPresent)
        => EdgesTo(nodes[last.a].adjacencies, last.b) =
               Append(EdgesTo(prev[last.a].adjacencies, last.b),
                      [value |-> last.value, adjacency |-> last.b])

C12_Witness ==
    /\ last.op = "add_edge"
    /\ BothPresent
    /\ last.a # last.b
    /\ Len(EdgesTo(prev[last.a].adjacencies, last.b)) = 1
    /\ EdgesTo(prev[last.a].adjacencies, last.b)[1].value = last.value
    /\ Len(EdgesTo(nodes[last.a].adjacencies, last.b)) = 2

(* C20: in every reachable state the target of every edge of every present *)
(* key is a present key, and a key that was present before a call is still *)
(* present after it.                                                       *)
C20_NoDanglingTargets ==
    /\ \A k \in DOMAIN nodes :
           \A i \in 1..Len(nodes[k].adjacencies) :
               get(nodes, nodes[k].adjacencies[i].adjacency) # None
    /\ DOMAIN prev \subseteq DOMAIN nodes

C20_Witness ==
    /\ last.op = "add_node"
    /\ \E k \in DOMAIN nodes \ {last.key} :
           \E i \in 1..Len(nodes[k].adjacencies) :
               nodes[k].adjacencies[i].adjacency = last.key
    /\ DOMAIN nodes # Keys

---------------------------------------------------------------------------
(* Properties of the linked list.  They are read in the states a list call *)
(* has just returned into: `llast` is the call, `lprev` the list handed to *)
(* it and `list` the list the caller has afterwards.                       *)

\* The sequence s without its i-th element.
Without(s, i) == SubSeq(s, 1, i - 1) \o SubSeq(s, i + 1, Len(s))

(* C13: insert(l, i, x) is Ok exactly when i <= len(l) and Err exactly     *)
(* when i > len(l); the list in Err is the original list, item for item    *)
(* and in the same order, so x has not been put into it.                   *)
C13_InsertErrReturnsOriginal ==
    llast.op = "insert"
        => /\ llast.result.ok <=> llast.index <= Len(Elems(lprev))
           /\ ~llast.result.ok
                  => /\ llast.result.val = lprev
                     /\ Elems(llast.result.val) = Elems(lprev)

C13_Witness ==
    /\ llast.op = "insert"
    /\ ~llast.result.ok
    /\ Len(Elems(lprev)) >= 2
    /\ llast.index = Len(Elems(lprev)) + 1

(* C14: remove(l, i) is Ok exactly when i < len(l) and Err exactly when    *)
(* i >= len(l), on the empty list for every index; the list in Err is the  *)
(* original list, item for item and in the same order.                     *)
C14_RemoveErrReturnsOriginal ==
    llast.op = "remove"
        => /\ llast.result.ok <=> llast.index < Len(Elems(lprev))
           /\ ~llast.result.ok
                  => /\ llast.result.val = lprev
                     /\ Elems(llast.result.val) = Elems(lprev)

C14_Witness ==
    /\ llast.op = "remove"
    /\ ~llast.result.ok
    /\ Len(Elems(lprev)) >= 2
    /\ llast.index = Len(Elems(lprev))

(* C15: for i <= n, insert(l, i, x) is Ok of the list e0..e(i-1), x,       *)
(* e(i)..e(n-1): x is at index i, the items in front keep their index, the *)
(* items behind have an index one larger, the length is n + 1; and         *)
(* insert(l, 0, x) is push(l, x).                                          *)
C15_InsertInBounds ==
    (llast.op = "insert" /\ llast.index <= Len(Elems(lprev)))
        => LET e == Elems(lprev)
               i == llast.index
               r == Elems(llast.result.val)
           IN  /\ llast.result.ok
               /\ r = SubSeq(e, 1, i) \o <<llast.item>> \o SubSeq(e, i + 1, Len(e))
               /\ Len(r) = Len(e) + 1
               /\ r[i + 1] = llast.item
               /\ i = 0 => llast.result.val = LinkedList_push(lprev, llast.item)

C15_Witness ==
    /\ llast.op = "insert"
    /\ llast.result.ok
    /\ Len(Elems(lprev)) = 2
    /\ llast.index = 1
    /\ llast.item \notin {Elems(lprev)[1], Elems(lprev)[2]}
    /\ Elems(lprev)[1] # Elems(lprev)[2]

(* C16: for i < n, remove(l, i) is Ok((e(i), l')) where l' is e0..e(i-1),  *)
(* e(i+1)..e(n-1): the item is the one at index i and the list holds the   *)
(* other items in their order, its length n - 1.                           *)
C16_RemoveInBounds ==
    (llast.op = "remove" /\ llast.index < Len(Elems(lprev)))
        => LET e == Elems(lprev)
               i == llast.index
           IN  /\ llast.result.ok
               /\ llast.result.val[1] = e[i + 1]
               /\ Elems(llast.result.val[2]) = Without(e, i + 1)
               /\ Len(Elems(llast.result.val[2])) = Len(e) - 1

C16_Witness ==
    /\ llast.op = "remove"
    /\ llast.result.ok
    /\ Len(Elems(lprev)) = 3
    /\ llast.index = 1
    /\ Elems(lprev)[1] # Elems(lprev)[2]
    /\ Elems(lprev)[2] # Elems(lprev)[3]

(* C17: pop(push(l, x)) is Some((x, l)); pop of the empty list is None;    *)
(* len is the number of items put in minus the number taken out, and       *)
(* is_empty holds exactly when len is 0.                                   *)
C17_PushPopInverse ==
    /\ llast.op = "push" => LinkedList_pop(list) = Some(<<llast.item, lprev>>)
    /\ (llast.op = "pop" /\ lprev = LinkedList_new) => llast.result = None
    /\ (llast.op = "pop" /\ lprev # LinkedList_new)
           => /\ llast.result # None
              /\ LinkedList_push(llast.result[1][2], llast.result[1][1]) = lprev
    /\ LinkedList_len(list) = net
    /\ LinkedList_is_empty(list) <=> LinkedList_len(list) = 0
    /\ llast.op = "len" => llast.result = net
    /\ llast.op = "is_empty" => (llast.result <=> net = 0)

C17_Witness ==
    /\ llast.op = "push"
    /\ lprev # LinkedList_new
    /\ net = 2
    /\ LinkedList_pop(list)[1][1] # LinkedList_pop(lprev)[1][1]

\* What the j-th call of next returns on a list built from input: the      
\* items from the last pushed to the first, and None from then on.
Yield(j) ==
    IF j <= Len(input) THEN Some(input[Len(input) + 1 - j]) ELSE None

(* C18: a list built from x1..xn, by pushes or by from_iter, yields xn,    *)
(* ..., x1 and then None, iterated by reference and iterated by value; so  *)
(* the list of from_iter holds the input in reverse order.                 *)
C18_IterationIsLifo ==
    /\ \A j \in 1..Len(byref) : byref[j] = Yield(j)
    /\ \A j \in 1..Len(byval) : byval[j] = Yield(j)
    /\ todo = <<>>
           => Elems(ilist) = [j \in 1..Len(input) |-> input[Len(input) + 1 - j]]

C18_Witness ==
    /\ via = "from_iter"
    /\ Len(input) = 3
    /\ input[1] # input[2] /\ input[2] # input[3] /\ input[1] # input[3]
    /\ Len(byref) = 4
    /\ Len(byval) = 4

(* C19: remove(t, x) on a tree that stores x is Some((x, t')) where t'     *)
(* stores what t stored minus one x, the items of the right subtree of the *)
(* removed node included; on a tree that does not store x it is None.      *)
C19_RemoveKeepsOthers ==
    tlast.op = "remove"
        => IF Count(tprev, tlast.item) > 0
           THEN /\ tlast.result # None
                /\ tlast.result[1][1] = tlast.item
                /\ \A x \in TreeItems :
                       Count(tlast.result[1][2], x) =
                           Count(tprev, x) - (IF x = tlast.item THEN 1 ELSE 0)
           ELSE tlast.result = None

\* The last add_edge / connect call was made on a present key and itself.
SelfLoopCall == last.a = last.b /\ last.a \in DOMAIN prev

(* C21: connect(a, a, w) on a present key appends exactly two edges {w, a} *)
(* to a's edge sequence, the edge and its mirror, and add_edge(a, a, w)    *)
(* appends exactly one; no other node changes and nothing panics.          *)
C21_SelfLoop ==
    LET e == [value |-> last.value, adjacency |-> last.a]
        Frame == /\ ~panicked
                 /\ DOMAIN nodes = DOMAIN prev
                 /\ nodes[last.a].value = prev[last.a].value
                 /\ \A k \in DOMAIN prev \ {last.a} : nodes[k] = prev[k]
    IN  /\ (last.op = "connect" /\ SelfLoopCall)
               => /\ Frame
                  /\ nodes[last.a].adjacencies = prev[last.a].adjacencies \o <<e, e>>
        /\ (last.op = "add_edge" /\ SelfLoopCall)
               => /\ Frame
                  /\ nodes[last.a].adjacencies = prev[last.a].adjacencies \o <<e>>

C21_Witness ==
    /\ last.op = "connect"
    /\ SelfLoopCall
    /\ DOMAIN prev = Keys
    /\ Len(nodes[last.a].adjacencies) = 2

===========================================================================
